---- MODULE Spec2Model ----
(***************************************************************************)
(* Model of the Astra DB n8n node (AstraDbV1.execute and the helpers of    *)
(* GenericFunctions / utilities it calls).                                 *)
(*                                                                         *)
(* JavaScript values are tagged records: every value has a field `kind`    *)
(* ("undefined", "null", "num", "str", "bool", "array", "object"); the     *)
(* properties of an object are further fields of the same record.  A       *)
(* thrown error is a record of kind "throw" carrying its message.          *)
(***************************************************************************)
EXTENDS Integers, Sequences, FiniteSets, TLC

\* ---------------------------------------------------------------- bounds
MaxItems == 2
MaxDocs == 2
MaxNameLen == 3
MaxTextLen == 2

\* ------------------------------------------------------------ JS values
Undefined == [kind |-> "undefined"]
Null == [kind |-> "null"]
Num(n) == [kind |-> "num", n |-> n]
NaN == [kind |-> "num", nan |-> TRUE]
Str(s) == [kind |-> "str", s |-> s]
Bool(b) == [kind |-> "bool", b |-> b]
Arr(es) == [kind |-> "array", elems |-> es]
EmptyObject == [kind |-> "object"]
Throw(msg) == [kind |-> "throw", message |-> msg]

Throws(v) == v.kind = "throw"
IsNaN(v) == v.kind = "num" /\ "nan" \in DOMAIN v

\* property read `v.f`: undefined when the property is absent
Get(v, f) == IF f \in DOMAIN v THEN v[f] ELSE Undefined

\* JavaScript truthiness (the `!x`, `x || y`, `if (x)` tests of the code)
Truthy(v) ==
  CASE v.kind \in {"undefined", "null"} -> FALSE
    [] v.kind = "bool" -> v.b
    [] v.kind = "num" -> ~IsNaN(v) /\ v.n # 0
    [] v.kind = "str" ->
         IF "chars" \in DOMAIN v THEN v.chars # <<>> ELSE v.s # ""
    [] OTHER -> TRUE

\* typeof v === 'object' (true of null, arrays and objects)
TypeofObject(v) == v.kind \in {"null", "array", "object"}

\* Number(v) for the option values the node receives
ToNumber(v) ==
  CASE v.kind = "num" -> v
    [] v.kind = "null" -> Num(0)
    [] v.kind = "bool" -> Num(IF v.b THEN 1 ELSE 0)
    [] v.kind = "str" /\ v.s = "" -> Num(0)
    [] v.kind = "str" /\ v.s = "10" -> Num(10)
    [] OTHER -> NaN

\* JSON.parse on the JSON texts the model feeds the node
SyntaxError == Throw("Unexpected token in JSON")

JSONparse(t) ==
  CASE t = "null" -> Null
    [] t = "7" -> Num(7)
    [] t = "[]" -> Arr(<<>>)
    [] t = "[{\"a\":1}]" -> Arr(<<[kind |-> "object", a |-> Num(1)]>>)
    [] t = "{}" -> EmptyObject
    [] t = "{\"a\":1}" -> [kind |-> "object", a |-> Num(1)]
    [] t = "{\"name\":-1}" -> [kind |-> "object", name |-> Num(-1)]
    [] t = "{\"$where\":\"x\"}" -> ("$where" :> Str("x")) @@ EmptyObject
    [] OTHER -> SyntaxError

\* ------------------------------------------------------ utilities.ts
generatePairedItemData_OneBased(length, inputIndex) ==
  [index \in 1..length |->
     [kind |-> "object", item |-> Num(index), input |-> Num(inputIndex)]]

generatePairedItemData(length, inputIndex) ==
  [index \in 1..length |->
     [kind |-> "object", item |-> Num(index - 1), input |-> Num(inputIndex)]]

\* ------------------------------------------------- GenericFunctions.ts
\* Strings that the code trims or matches against a pattern are sequences
\* of one-character strings, held in the field `chars` of a "str" value.
Text(cs) == [kind |-> "str", chars |-> cs]

\* `!v || typeof v !== 'string'` is false
NonEmptyString(v) ==
  v.kind = "str" /\ (IF "chars" \in DOMAIN v THEN v.chars # <<>> ELSE v.s # "")

Letters == {"a", "c", "e", "k", "m", "o", "s", "t", "y", "K"}
Digits == {"0", "1", "9"}
Whitespace == {" "}

RECURSIVE trimStart(_)
trimStart(cs) ==
  IF cs # <<>> /\ Head(cs) \in Whitespace THEN trimStart(Tail(cs)) ELSE cs

RECURSIVE trimEnd(_)
trimEnd(cs) ==
  IF cs # <<>> /\ cs[Len(cs)] \in Whitespace
    THEN trimEnd(SubSeq(cs, 1, Len(cs) - 1))
    ELSE cs

trim(cs) == trimEnd(trimStart(cs))

\* /^[a-zA-Z][a-zA-Z0-9_]*$/.test(cs)
NamePattern(cs) ==
  /\ cs # <<>>
  /\ cs[1] \in Letters
  /\ \A k \in 2..Len(cs) : cs[k] \in Letters \cup Digits \cup {"_"}

validateAstraCredentialsRaw(credentials) ==
  LET endpoint == Get(credentials, "endpoint")
      token == Get(credentials, "token")
  IN  IF ~NonEmptyString(endpoint)
        THEN Throw("Astra DB endpoint is required")
      ELSE IF ~NonEmptyString(token)
        THEN Throw("Astra DB token is required")
      ELSE [kind |-> "object",
            endpoint |-> Text(trim(endpoint.chars)),
            token |-> Text(trim(token.chars))]

\* new DataAPIClient(credentials.token) inside try/catch: `construction` is
\* Undefined when the constructor returns and the error when it throws
connectAstraClient(credentials, construction) ==
  IF Throws(construction)
    THEN Throw("Failed to connect to Astra DB: " \o construction.message)
    ELSE [kind |-> "object", token |-> credentials.token]

\* returns Undefined (void) or the error it throws
validateKeyspaceCollectionName(name, type) ==
  IF ~NonEmptyString(name)
    THEN Throw("Astra DB " \o type \o " name is required")
  ELSE IF trim(name.chars) = <<>>
    THEN Throw("Astra DB " \o type \o " name cannot be empty")
  ELSE IF ~NamePattern(trim(name.chars))
    THEN Throw("Invalid " \o type \o " name. Must start with a letter and contain only letters, numbers, and underscores")
  ELSE Undefined

validateQuery(query, fieldName) ==
  IF query.kind \in {"null", "undefined"}
    THEN [isValid |-> FALSE, errors |-> <<fieldName \o " cannot be null or undefined">>]
  ELSE IF ~TypeofObject(query)
    THEN [isValid |-> FALSE, errors |-> <<fieldName \o " must be an object">>]
  ELSE IF query.kind = "array"
    THEN [isValid |-> FALSE, errors |-> <<fieldName \o " cannot be an array">>]
  ELSE [isValid |-> TRUE, errors |-> <<>>]

\* errors.join(', ')
RECURSIVE join(_)
join(errors) ==
  IF errors = <<>> THEN ""
  ELSE IF Len(errors) = 1 THEN errors[1]
  ELSE errors[1] \o ", " \o join(Tail(errors))

\* a sort/projection option: parsed when it is a string, else taken as is
parseJsonOption(v, what) ==
  IF v.kind = "str"
    THEN IF Throws(JSONparse(v.s))
           THEN Throw("Invalid " \o what \o " format. Must be valid JSON")
           ELSE JSONparse(v.s)
    ELSE v

\* the options object that results, or the error thrown
parseAstraOptions(options) ==
  LET limit == ToNumber(Get(options, "limit"))
      skip == ToNumber(Get(options, "skip"))
      sort == parseJsonOption(Get(options, "sort"), "sort")
      projection == parseJsonOption(Get(options, "projection"), "projection")
      hasLimit == Get(options, "limit").kind # "undefined"
      hasSkip == Get(options, "skip").kind # "undefined"
      hasSort == Truthy(Get(options, "sort"))
      hasProjection == Truthy(Get(options, "projection"))
      hasUpsert == Get(options, "upsert").kind # "undefined"
      hasReturnDocument == Truthy(Get(options, "returnDocument"))
  IN  IF hasLimit /\ (IsNaN(limit) \/ limit.n < 0)
        THEN Throw("Limit must be a non-negative number")
      ELSE IF hasSkip /\ (IsNaN(skip) \/ skip.n < 0)
        THEN Throw("Skip must be a non-negative number")
      ELSE IF hasSort /\ Throws(sort) THEN sort
      ELSE IF hasProjection /\ Throws(projection) THEN projection
      ELSE (IF hasLimit THEN [limit |-> limit] ELSE EmptyObject)
           @@ (IF hasSkip THEN [skip |-> skip] ELSE EmptyObject)
           @@ (IF hasSort THEN [sort |-> sort] ELSE EmptyObject)
           @@ (IF hasProjection THEN [projection |-> projection] ELSE EmptyObject)
           @@ (IF hasUpsert
                 THEN [upsert |-> Bool(Truthy(Get(options, "upsert")))]
                 ELSE EmptyObject)
           @@ (IF hasReturnDocument
                 THEN [returnDocument |-> Get(options, "returnDocument")]
                 ELSE EmptyObject)
           @@ EmptyObject

\* reading a property of null or undefined throws a TypeError
TypeError == Throw("Cannot read properties of null")
PropertyReadThrows(v) == v.kind \in {"null", "undefined"}

formatAstraResponse(result, operation) ==
  LET response == [kind |-> "object", operation |-> operation,
                   success |-> TRUE, data |-> result]
  IN  CASE operation = "insertOne" ->
             IF PropertyReadThrows(result) THEN TypeError
             ELSE [insertedId |-> Get(result, "insertedId"),
                   acknowledged |-> Get(result, "acknowledged")] @@ response
        [] operation = "insertMany" ->
             IF PropertyReadThrows(result) THEN TypeError
             ELSE [insertedIds |-> Get(result, "insertedIds"),
                   insertedCount |-> Get(result, "insertedCount"),
                   acknowledged |-> Get(result, "acknowledged")] @@ response
        [] operation = "updateMany" ->
             IF PropertyReadThrows(result) THEN TypeError
             ELSE [matchedCount |-> Get(result, "matchedCount"),
                   modifiedCount |-> Get(result, "modifiedCount"),
                   acknowledged |-> Get(result, "acknowledged")] @@ response
        [] operation = "delete" ->
             IF PropertyReadThrows(result) THEN TypeError
             ELSE [deletedCount |-> Get(result, "deletedCount"),
                   acknowledged |-> Get(result, "acknowledged")] @@ response
        [] operation = "findMany" -> response
        [] operation = "findOne" -> [document |-> result] @@ response
        [] operation \in {"findAndUpdate", "findAndReplace", "findAndDelete"} ->
             [document |-> result] @@ response
        [] operation = "estimatedDocumentCount" -> [count |-> result] @@ response
        [] OTHER -> response

sanitizeInput(data) ==
  IF data.kind \in {"null", "undefined"} THEN EmptyObject
  ELSE IF TypeofObject(data) /\ data.kind # "array" THEN data
  ELSE [kind |-> "object", data |-> data]

\* The ten functions insertOneDocument .. estimatedDocumentCount differ only
\* in the collection method they await, the operation tag they hand to
\* formatAstraResponse and the prefix of the error they rethrow.
insertOneDocument ==
  [method |-> "insertOne", tag |-> "insertOne",
   failure |-> "Failed to insert document: "]

insertManyDocuments ==
  [method |-> "insertMany", tag |-> "insertMany",
   failure |-> "Failed to insert documents: "]

updateDocuments ==
  [method |-> "updateMany", tag |-> "updateMany",
   failure |-> "Failed to update documents: "]

deleteDocuments_WrongTag ==
  [method |-> "deleteMany", tag |-> "deleteMany",
   failure |-> "Failed to delete documents: "]

deleteDocuments ==
  [method |-> "deleteMany", tag |-> "delete",
   failure |-> "Failed to delete documents: "]

findDocuments ==
  [method |-> "find", tag |-> "findMany",
   failure |-> "Failed to find documents: "]

findOneDocument ==
  [method |-> "findOne", tag |-> "findOne",
   failure |-> "Failed to find document: "]

findAndUpdateDocument ==
  [method |-> "findOneAndUpdate", tag |-> "findAndUpdate",
   failure |-> "Failed to find and update document: "]

findAndReplaceDocument_WrongMethod ==
  [method |-> "findOneAndUpdate", tag |-> "findAndReplace",
   failure |-> "Failed to find and replace document: "]

findAndReplaceDocument ==
  [method |-> "findOneAndReplace", tag |-> "findAndReplace",
   failure |-> "Failed to find and replace document: "]

findAndDeleteDocument ==
  [method |-> "findOneAndDelete", tag |-> "findAndDelete",
   failure |-> "Failed to find and delete document: "]

estimatedDocumentCount ==
  [method |-> "estimatedDocumentCount", tag |-> "estimatedDocumentCount",
   failure |-> "Failed to get document count: "]

\* the function each handler calls, by the operation name that selects the
\* handler in the switch of execute
DocumentFunctions ==
  [insertOne |-> insertOneDocument,
   insertMany |-> insertManyDocuments,
   updateMany |-> updateDocuments,
   delete |-> deleteDocuments,
   findMany |-> findDocuments,
   findOne |-> findOneDocument,
   findAndUpdate |-> findAndUpdateDocument,
   findAndReplace |-> findAndReplaceDocument,
   findAndDelete |-> findAndDeleteDocument,
   estimatedDocumentCount |-> estimatedDocumentCount]

Operations == DOMAIN DocumentFunctions

\* the body of such a function once the awaited collection call has settled
\* with `outcome` (the raw result, or the error the client threw)
documentFunctionReturn(operation, outcome) ==
  LET fn == DocumentFunctions[operation]
      formatted == IF Throws(outcome) THEN outcome
                   ELSE formatAstraResponse(outcome, fn.tag)
  IN  IF Throws(formatted) THEN Throw(fn.failure \o formatted.message)
      ELSE formatted

\* -------------------------------------------------- AstraDbV1.node.ts
\* The handlers, up to their awaited collection call.  `p` holds the raw
\* parameters of the item (JSON texts, and the options object); the value is
\* the error thrown, or the arguments of the collection call.
Args(a) == [kind |-> "args"] @@ a

\* `if (!validation.isValid) throw ...` around validateQuery
requireValid(query, fieldName) ==
  LET validation == validateQuery(query, fieldName)
  IN  IF ~validation.isValid
        THEN Throw("Invalid " \o fieldName \o ": " \o join(validation.errors))
        ELSE Undefined

handleInsertOne(p) ==
  LET document == JSONparse(p.document)
  IN  IF Throws(document) THEN document
      ELSE Args([document |-> document])

handleInsertMany(p) ==
  LET documents == JSONparse(p.documents)
      options == parseAstraOptions(p.options)
  IN  IF Throws(documents) THEN documents
      ELSE IF Throws(options) THEN options
      ELSE Args([documents |-> documents, options |-> options])

handleFindMany(p) ==
  LET filter == JSONparse(p.filter)
      options == parseAstraOptions(p.options)
  IN  IF Throws(filter) THEN filter
      ELSE IF Throws(options) THEN options
      ELSE IF Throws(requireValid(filter, "filter"))
        THEN requireValid(filter, "filter")
      ELSE Args([filter |-> filter, options |-> options])

handleFindOne(p) ==
  LET filter == JSONparse(p.filter)
      options == parseAstraOptions(p.options)
  IN  IF Throws(filter) THEN filter
      ELSE IF Throws(options) THEN options
      ELSE IF Throws(requireValid(filter, "filter"))
        THEN requireValid(filter, "filter")
      ELSE Args([filter |-> filter, options |-> options])

handleUpdateMany(p) ==
  LET filter == JSONparse(p.filter)
      update == JSONparse(p.update)
      options == parseAstraOptions(p.options)
  IN  IF Throws(filter) THEN filter
      ELSE IF Throws(update) THEN update
      ELSE IF Throws(options) THEN options
      ELSE IF Throws(requireValid(filter, "filter"))
        THEN requireValid(filter, "filter")
      ELSE IF Throws(requireValid(update, "update"))
        THEN requireValid(update, "update")
      ELSE Args([filter |-> filter, update |-> update, options |-> options])

handleDelete_Unchecked(p) ==
  LET filter == JSONparse(p.filter)
  IN  IF Throws(filter) THEN filter
      ELSE Args([filter |-> filter])

handleDelete(p) ==
  LET filter == JSONparse(p.filter)
  IN  IF Throws(filter) THEN filter
      ELSE IF Throws(requireValid(filter, "filter"))
        THEN requireValid(filter, "filter")
      ELSE Args([filter |-> filter])

handleFindAndUpdate(p) ==
  LET filter == JSONparse(p.filter)
      update == JSONparse(p.update)
      options == parseAstraOptions(p.options)
  IN  IF Throws(filter) THEN filter
      ELSE IF Throws(update) THEN update
      ELSE IF Throws(options) THEN options
      ELSE IF Throws(requireValid(filter, "filter"))
        THEN requireValid(filter, "filter")
      ELSE IF Throws(requireValid(update, "update"))
        THEN requireValid(update, "update")
      ELSE Args([filter |-> filter, update |-> update, options |-> options])

handleFindAndReplace(p) ==
  LET filter == JSONparse(p.filter)
      replacement == JSONparse(p.replacement)
      options == parseAstraOptions(p.options)
  IN  IF Throws(filter) THEN filter
      ELSE IF Throws(replacement) THEN replacement
      ELSE IF Throws(options) THEN options
      ELSE IF Throws(requireValid(filter, "filter"))
        THEN requireValid(filter, "filter")
      ELSE IF Throws(requireValid(replacement, "replacement"))
        THEN requireValid(replacement, "replacement")
      ELSE Args([filter |-> filter, replacement |-> replacement,
                 options |-> options])

handleFindAndDelete(p) ==
  LET filter == JSONparse(p.filter)
      options == parseAstraOptions(p.options)
  IN  IF Throws(filter) THEN filter
      ELSE IF Throws(options) THEN options
      ELSE IF Throws(requireValid(filter, "filter"))
        THEN requireValid(filter, "filter")
      ELSE Args([filter |-> filter, options |-> options])

handleEstimatedDocumentCount(p) ==
  LET options == parseAstraOptions(p.options)
  IN  IF Throws(options) THEN options
      ELSE Args([options |-> options])

\* the switch of execute, up to the await of the selected handler
dispatch(operation, p) ==
  CASE operation = "insertOne" -> handleInsertOne(p)
    [] operation = "insertMany" -> handleInsertMany(p)
    [] operation = "findMany" -> handleFindMany(p)
    [] operation = "findOne" -> handleFindOne(p)
    [] operation = "updateMany" -> handleUpdateMany(p)
    [] operation = "delete" -> handleDelete(p)
    [] operation = "findAndUpdate" -> handleFindAndUpdate(p)
    [] operation = "findAndReplace" -> handleFindAndReplace(p)
    [] operation = "findAndDelete" -> handleFindAndDelete(p)
    [] operation = "estimatedDocumentCount" -> handleEstimatedDocumentCount(p)
    [] OTHER -> Throw("Unknown operation: " \o operation)

\* the parameters each handler asks getNodeParameter for, in the order of
\* its code; each is parsed (JSON.parse, parseAstraOptions) before the next
\* is read
handlerParameters ==
  [insertOne |-> <<"document">>,
   insertMany |-> <<"documents", "options">>,
   findMany |-> <<"filter", "options">>,
   findOne |-> <<"filter", "options">>,
   updateMany |-> <<"filter", "update", "options">>,
   delete |-> <<"filter">>,
   findAndUpdate |-> <<"filter", "update", "options">>,
   findAndReplace |-> <<"filter", "replacement", "options">>,
   findAndDelete |-> <<"filter", "options">>,
   estimatedDocumentCount |-> <<"options">>]

\* of the parameter names `names`, those read before a parse throws
RECURSIVE readUntilThrow(_, _)
readUntilThrow(names, p) ==
  IF names = <<>> THEN {}
  ELSE LET parsed == IF Head(names) = "options"
                       THEN parseAstraOptions(p.options)
                       ELSE JSONparse(p[Head(names)])
       IN  {Head(names)} \cup
             (IF Throws(parsed) THEN {} ELSE readUntilThrow(Tail(names), p))

\* the parameters the handler of `operation` reads for an item (none when the
\* switch falls to its default)
handlerReads(operation, p) ==
  IF operation \in DOMAIN handlerParameters
    THEN readUntilThrow(handlerParameters[operation], p)
    ELSE {}

\* what the handler returns once its document function has returned
\* `result`: handleFindOne returns `result || {}`, the others `result`
handlerReturn(operation, result) ==
  IF operation = "findOne" /\ ~Truthy(result) THEN EmptyObject ELSE result

Records(rs) == [kind |-> "records", records |-> rs]

outputRecords_Twice(operation, result, pairedItem) ==
  LET json == formatAstraResponse(result, operation)
  IN  IF Throws(json) THEN json
      ELSE Records(<<[json |-> json, pairedItem |-> pairedItem],
                     [json |-> json, pairedItem |-> pairedItem]>>)

\* the rest of the try block of the item loop: the records pushed for the
\* handler's result, or the error thrown
outputRecords(operation, result, pairedItem) ==
  IF operation = "findMany"
    THEN IF PropertyReadThrows(result) THEN TypeError
         ELSE LET documents == IF Truthy(Get(result, "documents"))
                                 THEN Get(result, "documents")
                                 ELSE result
              IN  IF documents.kind = "array"
                    THEN Records([k \in 1..Len(documents.elems) |->
                                    [json |-> sanitizeInput(documents.elems[k]),
                                     pairedItem |-> pairedItem]])
                    ELSE Records(<<[json |-> sanitizeInput(documents),
                                    pairedItem |-> pairedItem]>>)
    ELSE LET json == formatAstraResponse(result, operation)
         IN  IF Throws(json) THEN json
             ELSE Records(<<[json |-> json, pairedItem |-> pairedItem]>>)

\* the record pushed by a catch block under continue-on-fail
errorRecord(error, pairedItem) ==
  [json |-> [kind |-> "object", error |-> Str(error.message)],
   pairedItem |-> pairedItem]

\* pairedItem of the record of the top-level catch: [{ item: 0 }]
topLevelPairedItem == Arr(<<[kind |-> "object", item |-> Num(0)]>>)

nextIndex_Stuck(index) == index

\* `i++` of the item loop
nextIndex(index) == index + 1

\* --------------------------------------------------------------- inputs
\* What the host runtime and the database client hand to the node.
CredentialInputs ==
  {[kind |-> "object", endpoint |-> Text(<<"e">>), token |-> Text(<<"t">>)],
   [kind |-> "object", endpoint |-> Text(<<"e">>), token |-> Text(<<" ", "t", " ">>)],
   [kind |-> "object", endpoint |-> Text(<<"e">>), token |-> Text(<<" ">>)],
   [kind |-> "object", endpoint |-> Text(<<"e">>), token |-> Num(7)],
   [kind |-> "object", endpoint |-> Text(<<"e">>)],
   [kind |-> "object", token |-> Text(<<"t">>)]}

KeyspaceInputs ==
  {Text(<<"k", "s">>), Text(<<" ", "k", "s">>), Text(<<>>), Text(<<" ">>),
   Text(<<"1", "k">>), Undefined}

CollectionInputs ==
  {Text(<<"c", "_", "1">>), Text(<<"s", "y", "s", "t", "e", "m">>),
   Text(<<"c", "-", "o">>), Text(<<>>)}

DocumentTexts == {"{bad", "{\"a\":1}"}
DocumentsTexts == {"{bad", "[{\"a\":1}]"}
FilterTexts == {"{bad", "null", "7", "[]", "{}", "{\"a\":1}", "{\"$where\":\"x\"}"}
UpdateTexts == {"{bad", "7", "{\"a\":1}"}

OptionInputs ==
  {EmptyObject,
   [kind |-> "object", limit |-> Num(10)],
   [kind |-> "object", limit |-> Num(2000)],
   [kind |-> "object", limit |-> Num(0)],
   [kind |-> "object", limit |-> Num(-1)],
   [kind |-> "object", limit |-> Str("abc")],
   [kind |-> "object", skip |-> Num(-5)],
   [kind |-> "object", sort |-> Str("{bad")],
   [kind |-> "object", sort |-> Str("{\"name\":-1}")],
   [kind |-> "object", sort |-> [kind |-> "object", name |-> Num(2)]]}

\* the parameters a handler reads vary over the input sets; the others are
\* never read and stay at a default
ItemInputs(op) ==
  {[document |-> d, documents |-> ds, filter |-> f, update |-> u,
    replacement |-> r, options |-> o] :
     d \in IF op = "insertOne" THEN DocumentTexts ELSE {"{}"},
     ds \in IF op = "insertMany" THEN DocumentsTexts ELSE {"[]"},
     f \in IF op \in {"findMany", "findOne", "updateMany", "delete",
                      "findAndUpdate", "findAndReplace", "findAndDelete"}
             THEN FilterTexts ELSE {"{}"},
     u \in IF op \in {"updateMany", "findAndUpdate"} THEN UpdateTexts ELSE {"{}"},
     r \in IF op = "findAndReplace" THEN UpdateTexts ELSE {"{}"},
     o \in IF op \in Operations \ {"insertOne", "delete"}
             THEN OptionInputs ELSE {EmptyObject}}

Doc(n) == [kind |-> "object", id |-> Num(n)]

\* the error a call of the database client may throw
SdkError == Throw("boom")

\* the error getNodeParameter may throw
HostError == Throw("Could not get parameter")

\* the results a collection method may resolve to
SdkResults(method) ==
  CASE method = "insertOne" ->
         {[kind |-> "object", insertedId |-> Str("id1"), acknowledged |-> Bool(TRUE)]}
    [] method = "insertMany" ->
         {[kind |-> "object", insertedIds |-> Arr(<<Str("id1")>>),
           insertedCount |-> Num(1), acknowledged |-> Bool(TRUE)]}
    [] method = "updateMany" ->
         {[kind |-> "object", matchedCount |-> Num(2), modifiedCount |-> Num(1),
           acknowledged |-> Bool(TRUE)]}
    [] method = "deleteMany" ->
         {[kind |-> "object", deletedCount |-> Num(1)]}
    [] method = "find" ->
         {Arr([n \in 1..k |-> Doc(n)]) : k \in 0..MaxDocs}
    [] method = "estimatedDocumentCount" -> {Num(0), Num(5)}
    [] OTHER -> {Null, Doc(1)}

\* ---------------------------------------------------------------- state
VARIABLES
  pc,                   \* where execute stands
  operation,            \* getNodeParameter('operation', 0)
  continueOnFail,       \* this.continueOnFail()
  nItems,               \* getInputData().length
  validatedCredentials, \* result of validateAstraCredentialsRaw
  client,               \* the DataAPIClient
  collectionObj,        \* db.collection(collection)
  i,                    \* index of the item loop
  cur,                  \* parameters and call arguments of the awaiting handler
  calls,                \* the calls made on the collection, in order
  returnData,           \* the output records
  caught,               \* items whose per-item catch block ran, in order
  thrown,               \* the error execute propagated to the host
  reads,                \* the <<parameter, index>> pairs getNodeParameter was asked for
  arg,                  \* a helper function called on its own: its arguments
  res                   \* ... and what it returned or threw

vars == <<pc, operation, continueOnFail, nItems, validatedCredentials, client,
          collectionObj, i, cur, calls, returnData, caught, thrown, reads, arg,
          res>>

Pending == [kind |-> "pending"]

fallbackPairedItems == generatePairedItemData(nItems, 0)

Init ==
  /\ pc = "start"
  /\ operation \in Operations \cup {"bogus"}
  /\ continueOnFail \in BOOLEAN
  /\ nItems \in 0..MaxItems
  /\ validatedCredentials = Undefined
  /\ client = Undefined
  /\ collectionObj = Undefined
  /\ i = 0
  /\ cur = Undefined
  /\ calls = <<>>
  /\ returnData = <<>>
  /\ caught = <<>>
  /\ thrown = Undefined
  /\ reads = {}
  /\ arg = Undefined
  /\ res = Undefined

Connect_InsideTry ==
  /\ pc = "start"
  /\ UNCHANGED <<arg, res, reads>>
  /\ \E credentials \in CredentialInputs, construction \in {Undefined, SdkError} :
       LET validated == validateAstraCredentialsRaw(credentials)
           connected == IF Throws(validated) THEN validated
                        ELSE connectAstraClient(validated, construction)
       IN  IF Throws(connected)
             THEN /\ IF continueOnFail
                       THEN /\ returnData' =
                                 Append(returnData,
                                        [json |-> [kind |-> "object",
                                                   error |-> Str(connected.message)],
                                         pairedItem |->
                                           Arr(<<[kind |-> "object", item |-> Num(0)]>>)])
                            /\ pc' = "done"
                            /\ thrown' = thrown
                       ELSE /\ pc' = "thrown"
                            /\ thrown' = connected
                            /\ returnData' = returnData
                  /\ validatedCredentials' = validatedCredentials
                  /\ client' = client
             ELSE /\ pc' = "setup"
                  /\ validatedCredentials' = validated
                  /\ client' = connected
                  /\ UNCHANGED <<thrown, returnData>>
  /\ UNCHANGED <<operation, continueOnFail, nItems, collectionObj, i, cur,
                 calls, caught>>

\* lines 92-95: credentials and client, before the try block; an error here
\* leaves execute directly
Connect ==
  /\ pc = "start"
  /\ UNCHANGED <<arg, res, reads>>
  /\ \E credentials \in CredentialInputs, construction \in {Undefined, SdkError} :
       LET validated == validateAstraCredentialsRaw(credentials)
           connected == IF Throws(validated) THEN validated
                        ELSE connectAstraClient(validated, construction)
       IN  IF Throws(connected)
             THEN /\ pc' = "thrown"
                  /\ thrown' = connected
                  /\ validatedCredentials' =
                       IF Throws(validated) THEN validatedCredentials ELSE validated
                  /\ client' = client
             ELSE /\ pc' = "setup"
                  /\ validatedCredentials' = validated
                  /\ client' = connected
                  /\ UNCHANGED thrown
  /\ UNCHANGED <<operation, continueOnFail, nItems, collectionObj, i, cur,
                 calls, returnData, caught>>

topLevelCatch_Swallow(error) ==
  /\ returnData' = Append(returnData, errorRecord(error, topLevelPairedItem))
  /\ pc' = "done"
  /\ thrown' = thrown

topLevelCatch_Rethrow(error) ==
  /\ pc' = "thrown"
  /\ thrown' = error
  /\ returnData' = returnData

\* the outer catch block
topLevelCatch(error) ==
  IF continueOnFail
    THEN /\ returnData' = Append(returnData, errorRecord(error, topLevelPairedItem))
         /\ pc' = "done"
         /\ thrown' = thrown
    ELSE /\ pc' = "thrown"
         /\ thrown' = error
         /\ returnData' = returnData

\* lines 99-101: the parameters execute reads at index 0, in this order
SetupParameters == <<"operation", "collection", "keyspace">>

\* lines 98-117: the parameters read at index 0 (`failed` is the read at
\* which getNodeParameter throws, 0 for none), identifier validation and
\* the collection handle (client.db and db.collection may throw)
Setup ==
  /\ pc = "setup"
  /\ UNCHANGED <<arg, res>>
  /\ \E failed \in 0..Len(SetupParameters),
        keyspace \in KeyspaceInputs, collection \in CollectionInputs,
        handle \in {Undefined, SdkError} :
       LET read == IF failed = 0 THEN Undefined ELSE HostError
           asked == IF failed = 0 THEN Len(SetupParameters) ELSE failed
           badKeyspace == validateKeyspaceCollectionName(keyspace, "keyspace")
           badCollection == validateKeyspaceCollectionName(collection, "collection")
           error == IF Throws(read) THEN read
                    ELSE IF Throws(badKeyspace) THEN badKeyspace
                    ELSE IF Throws(badCollection) THEN badCollection
                    ELSE handle
       IN  /\ reads' = reads \cup {<<SetupParameters[k], 0>> : k \in 1..asked}
           /\ IF Throws(error)
             THEN /\ topLevelCatch(error)
                  /\ UNCHANGED <<collectionObj, i>>
             ELSE /\ collectionObj' = [kind |-> "object",
                                       endpoint |-> validatedCredentials.endpoint,
                                       keyspace |-> keyspace,
                                       collection |-> collection]
                  /\ i' = 0
                  /\ pc' = "loop"
                  /\ UNCHANGED <<returnData, thrown>>
  /\ UNCHANGED <<operation, continueOnFail, nItems, validatedCredentials,
                 client, cur, calls, caught>>

perItemCatch_Break(error) ==
  /\ caught' = Append(caught, i)
  /\ returnData' = Append(returnData,
                          errorRecord(error, generatePairedItemData(nItems, 0)[i + 1]))
  /\ i' = nItems
  /\ pc' = "loop"
  /\ thrown' = thrown

perItemCatch_AlsoOuter(error) ==
  /\ caught' = Append(caught, i)
  /\ i' = i
  /\ IF continueOnFail
       THEN /\ returnData' =
                 returnData \o <<errorRecord(error, generatePairedItemData(nItems, 0)[i + 1]),
                                 errorRecord(error, topLevelPairedItem)>>
            /\ pc' = "done"
            /\ thrown' = thrown
       ELSE topLevelCatch(error)

\* the catch block of the item loop (a rethrow lands in the outer catch)
perItemCatch(error) ==
  /\ caught' = Append(caught, i)
  /\ IF continueOnFail
       THEN /\ returnData' = Append(returnData,
                                    errorRecord(error, fallbackPairedItems[i + 1]))
            /\ i' = nextIndex(i)
            /\ pc' = "loop"
            /\ thrown' = thrown
       ELSE /\ topLevelCatch(error)
            /\ i' = i

ItemStart_PerItemCollection ==
  /\ pc = "loop"
  /\ UNCHANGED <<arg, res>>
  /\ i < nItems
  /\ \E p \in ItemInputs(operation), collection \in CollectionInputs :
       LET request == dispatch(operation, p)
       IN  /\ reads' = reads \cup {<<f, i>> : f \in handlerReads(operation, p)}
           /\ IF Throws(request) \/ Throws(validateKeyspaceCollectionName(collection, "collection"))
             THEN /\ perItemCatch(IF Throws(request) THEN request ELSE SdkError)
                  /\ UNCHANGED <<cur, calls, collectionObj>>
             ELSE /\ cur' = [kind |-> "handler", params |-> p, args |-> request]
                  /\ collectionObj' = [collectionObj EXCEPT !.collection = collection]
                  /\ calls' = Append(calls,
                                     [item |-> i,
                                      method |-> DocumentFunctions[operation].method,
                                      outcome |-> Pending])
                  /\ pc' = "await"
                  /\ UNCHANGED <<i, returnData, caught, thrown>>
  /\ UNCHANGED <<operation, continueOnFail, nItems, validatedCredentials, client>>

ItemStart_PerItemOperation ==
  /\ pc = "loop"
  /\ UNCHANGED <<arg, res>>
  /\ i < nItems
  /\ \E itemOperation \in Operations :
     \E p \in ItemInputs(itemOperation) :
       LET request == dispatch(itemOperation, p)
       IN  /\ reads' = reads \cup {<<"operation", i>>}
                         \cup {<<f, i>> : f \in handlerReads(itemOperation, p)}
           /\ IF Throws(request)
                THEN /\ perItemCatch(request)
                     /\ UNCHANGED <<cur, calls>>
                ELSE /\ cur' = [kind |-> "handler", params |-> p, args |-> request]
                     /\ calls' = Append(calls,
                                        [item |-> i,
                                         method |-> DocumentFunctions[itemOperation].method,
                                         outcome |-> Pending])
                     /\ pc' = "await"
                     /\ UNCHANGED <<i, returnData, caught, thrown>>
  /\ UNCHANGED <<operation, continueOnFail, nItems, validatedCredentials,
                 client, collectionObj>>

\* one iteration of the loop up to the await of the collection call
ItemStart ==
  /\ pc = "loop"
  /\ UNCHANGED <<arg, res>>
  /\ i < nItems
  /\ \E p \in ItemInputs(operation) :
       LET request == dispatch(operation, p)
       IN  /\ reads' = reads \cup {<<f, i>> : f \in handlerReads(operation, p)}
           /\ IF Throws(request)
                THEN /\ perItemCatch(request)
                     /\ UNCHANGED <<cur, calls>>
                ELSE /\ cur' = [kind |-> "handler", params |-> p, args |-> request]
                     /\ calls' = Append(calls,
                                        [item |-> i,
                                         method |-> DocumentFunctions[operation].method,
                                         outcome |-> Pending])
                     /\ pc' = "await"
                     /\ UNCHANGED <<i, returnData, caught, thrown>>
  /\ UNCHANGED <<operation, continueOnFail, nItems, validatedCredentials,
                 client, collectionObj>>

\* the collection call settles and the iteration runs to its end
CallSettles ==
  /\ pc = "await"
  /\ UNCHANGED <<arg, res, reads>>
  /\ \E outcome \in SdkResults(calls[Len(calls)].method) \cup {SdkError} :
       LET returned == documentFunctionReturn(operation, outcome)
           result == IF Throws(returned) THEN returned
                     ELSE handlerReturn(operation, returned)
           output == IF Throws(result) THEN result
                     ELSE outputRecords(operation, result, fallbackPairedItems[i + 1])
       IN  /\ calls' = [calls EXCEPT ![Len(calls)].outcome = outcome]
           /\ cur' = Undefined
           /\ IF Throws(output)
                THEN perItemCatch(output)
                ELSE /\ returnData' = returnData \o output.records
                     /\ i' = nextIndex(i)
                     /\ pc' = "loop"
                     /\ UNCHANGED <<caught, thrown>>
  /\ UNCHANGED <<operation, continueOnFail, nItems, validatedCredentials,
                 client, collectionObj>>

\* the loop ends and execute returns [returnData]
Return ==
  /\ pc = "loop"
  /\ UNCHANGED <<arg, res, reads>>
  /\ ~(i < nItems)
  /\ pc' = "done"
  /\ UNCHANGED <<operation, continueOnFail, nItems, validatedCredentials,
                 client, collectionObj, i, cur, calls, returnData, caught, thrown>>

Next == Connect \/ Setup \/ ItemStart \/ CallSettles \/ Return

Spec == Init /\ [][Next]_vars

\* ------------------------------------------- the helpers on their own
\* GenericFunctions.ts exports its helpers; each can be called by itself
\* (the credential test and the unit tests do).  One call: `arg` holds the
\* function and its arguments, `res` what it returned or threw.
NameAlphabet == {"a", "1", "_", "-", " "}

NameInputs ==
  {Text(cs) : cs \in UNION {[1..n -> NameAlphabet] : n \in 0..MaxNameLen}}
    \cup KeyspaceInputs \cup CollectionInputs

CredentialFieldInputs ==
  {Undefined, Null, Num(7), Text(<<>>), Text(<<" ">>), Text(<<"e">>),
   Text(<<" ", "t", " ">>)}

CredentialArguments ==
  CredentialInputs \cup
    {[kind |-> "object", endpoint |-> e, token |-> t] :
       e \in CredentialFieldInputs, t \in CredentialFieldInputs}

QueryInputs ==
  {Undefined, Str("x")} \cup {JSONparse(t) : t \in FilterTexts \ {"{bad"}}

FieldNames == {"filter", "update", "replacement"}

OptionArguments ==
  OptionInputs \cup
    {[kind |-> "object", limit |-> Num(1)],
     [kind |-> "object", limit |-> Num(1000)],
     [kind |-> "object", limit |-> Num(1001)],
     [kind |-> "object", skip |-> Num(0)],
     [kind |-> "object", limit |-> Num(10), skip |-> Num(3)],
     [kind |-> "object", sort |-> [kind |-> "object", name |-> Num(1)]],
     [kind |-> "object", sort |-> [kind |-> "object", name |-> Num(-1)]],
     [kind |-> "object", sort |-> [kind |-> "object", name |-> Num(0)]],
     [kind |-> "object", sort |-> [kind |-> "object", name |-> Str("asc")]]}

\* document content: texts with and without angle brackets, by themselves
\* and inside arrays and (nested) objects
TextAlphabet == {"a", "<", ">"}

TextInputs ==
  {Text(cs) : cs \in UNION {[1..n -> TextAlphabet] : n \in 0..MaxTextLen}}

DataInputs ==
  {Null, Undefined, Num(7), Doc(1)}
    \cup TextInputs
    \cup {Arr(<<Text(<<"a">>), t>>) : t \in TextInputs}
    \cup {[kind |-> "object", name |-> t, value |-> Text(<<"a">>)] : t \in TextInputs}
    \cup {[kind |-> "object", tags |-> Arr(<<t>>),
           inner |-> [kind |-> "object", name |-> t]] : t \in TextInputs}

ResultInputs ==
  {Null} \cup UNION {SdkResults(DocumentFunctions[op].method) : op \in Operations}

Arguments ==
  {[fn |-> "validateKeyspaceCollectionName", name |-> n, type |-> t] :
     n \in NameInputs, t \in {"keyspace", "collection"}}
  \cup {[fn |-> "validateAstraCredentialsRaw", credentials |-> c] :
          c \in CredentialArguments}
  \cup {[fn |-> "validateQuery", query |-> q, fieldName |-> f] :
          q \in QueryInputs, f \in FieldNames}
  \cup {[fn |-> "parseAstraOptions", options |-> o] : o \in OptionArguments}
  \cup {[fn |-> "formatAstraResponse", result |-> r, operation |-> op] :
          r \in ResultInputs, op \in Operations}
  \cup {[fn |-> "sanitizeInput", data |-> d] : d \in DataInputs}

FnInit ==
  /\ pc = "call"
  /\ arg \in Arguments
  /\ res = Undefined
  /\ operation = Undefined
  /\ continueOnFail = FALSE
  /\ nItems = 0
  /\ validatedCredentials = Undefined
  /\ client = Undefined
  /\ collectionObj = Undefined
  /\ i = 0
  /\ cur = Undefined
  /\ calls = <<>>
  /\ returnData = <<>>
  /\ caught = <<>>
  /\ thrown = Undefined
  /\ reads = {}

\* the call returns, or throws, `r`; nothing else is touched
Returns(r) ==
  /\ res' = r
  /\ pc' = "returned"
  /\ UNCHANGED <<arg, operation, continueOnFail, nItems, validatedCredentials,
                 client, collectionObj, i, cur, calls, returnData, caught,
                 thrown, reads>>

CallValidateKeyspaceCollectionName ==
  /\ pc = "call"
  /\ arg.fn = "validateKeyspaceCollectionName"
  /\ Returns(validateKeyspaceCollectionName(arg.name, arg.type))

CallValidateAstraCredentialsRaw ==
  /\ pc = "call"
  /\ arg.fn = "validateAstraCredentialsRaw"
  /\ Returns(validateAstraCredentialsRaw(arg.credentials))

CallValidateQuery ==
  /\ pc = "call"
  /\ arg.fn = "validateQuery"
  /\ Returns(validateQuery(arg.query, arg.fieldName))

CallParseAstraOptions ==
  /\ pc = "call"
  /\ arg.fn = "parseAstraOptions"
  /\ Returns(parseAstraOptions(arg.options))

CallFormatAstraResponse ==
  /\ pc = "call"
  /\ arg.fn = "formatAstraResponse"
  /\ Returns(formatAstraResponse(arg.result, arg.operation))

CallSanitizeInput ==
  /\ pc = "call"
  /\ arg.fn = "sanitizeInput"
  /\ Returns(sanitizeInput(arg.data))

FnNext ==
  \/ CallValidateKeyspaceCollectionName
  \/ CallValidateAstraCredentialsRaw
  \/ CallValidateQuery
  \/ CallParseAstraOptions
  \/ CallFormatAstraResponse
  \/ CallSanitizeInput

SpecFn == FnInit /\ [][FnNext]_vars

\* ------------------------------------------------------------ properties
\* Vocabulary of the properties below.
Range(s) == {s[k] : k \in 1..Len(s)}

\* the paired-item links of an output record
Links(rec) ==
  IF rec.pairedItem.kind = "array" THEN rec.pairedItem.elems
  ELSE <<rec.pairedItem>>

\* the item an output record is paired to
PairedTo(rec) == Links(rec)[1].item.n

IsErrorRecord(rec) == DOMAIN rec.json = {"kind", "error"}
IsEnvelope(v) == v.kind = "object" /\ "operation" \in DOMAIN v

\* the records of the output paired to item k
RecordsOf(k) == {n \in 1..Len(returnData) : PairedTo(returnData[n]) = k}

\* the item loop was entered (the pre-loop setup succeeded)
LoopEntered == collectionObj # Undefined

\* The local checks of an item, stated from the parameters each operation
\* declares rather than from the handlers: which texts are JSON-parsed,
\* which parsed values go through validateQuery, which operations parse
\* the options.
ParsedParams ==
  [insertOne |-> {"document"}, insertMany |-> {"documents"},
   findMany |-> {"filter"}, findOne |-> {"filter"},
   updateMany |-> {"filter", "update"}, delete |-> {"filter"},
   findAndUpdate |-> {"filter", "update"},
   findAndReplace |-> {"filter", "replacement"},
   findAndDelete |-> {"filter"}, estimatedDocumentCount |-> {}]

QueryParams == [op \in Operations |-> ParsedParams[op] \ {"document", "documents"}]

OptionOperations == Operations \ {"insertOne", "delete"}

LocalChecksPass(op, p) ==
  /\ \A f \in ParsedParams[op] : ~Throws(JSONparse(p[f]))
  /\ op \in OptionOperations => ~Throws(parseAstraOptions(p.options))
  /\ \A f \in QueryParams[op] : validateQuery(JSONparse(p[f]), f).isValid

\* C1: a database-client call is in flight only for the item the loop is at,
\* and only after every local check of that item (JSON parsing, option
\* parsing, validateQuery) has passed; an item with a failing check gets no
\* call.
C1_ChecksBeforeCall ==
  \A k \in 1..Len(calls) :
    calls[k].outcome = Pending =>
      /\ pc = "await"
      /\ calls[k].item = i
      /\ cur.kind = "handler"
      /\ LocalChecksPass(operation, cur.params)

\* C1 witness: item 0 failed a local check and got no call, item 1 passed
\* its checks and its call is in flight.
C1_Witness ==
  /\ pc = "await"
  /\ caught = <<0>>
  /\ Len(calls) = 1
  /\ calls[1].item = 1
  /\ calls[1].outcome = Pending

\* C2: with continue-on-fail enabled, each failed item has exactly one
\* error record paired to it, no other item has an error record, and the
\* loop goes on: execute never throws after the setup, and at the end every
\* item was either caught or had a call that resolved.
C2_ContinueOnFail ==
  (continueOnFail /\ LoopEntered) =>
    /\ pc # "thrown"
    /\ \A k \in 0..(nItems - 1) :
         Cardinality({n \in RecordsOf(k) : IsErrorRecord(returnData[n])})
           = IF k \in Range(caught) THEN 1 ELSE 0
    /\ pc = "done" =>
         \A k \in 0..(nItems - 1) :
           \/ k \in Range(caught)
           \/ \E c \in 1..Len(calls) :
                calls[c].item = k /\ ~Throws(calls[c].outcome)

\* C2 witness: item 0 failed, item 1 was then processed with a call that
\* resolved, and execute returned.
C2_Witness ==
  /\ continueOnFail
  /\ pc = "done"
  /\ nItems = 2
  /\ caught = <<0>>
  /\ Len(calls) = 1
  /\ calls[1].item = 1
  /\ ~Throws(calls[1].outcome)
  /\ Len(returnData) = 2

\* C3: with continue-on-fail disabled, as soon as an item fails execute
\* has thrown: it never returns, and no call is made for a later item.
C3_AbortOnFail ==
  (~continueOnFail /\ caught # <<>>) =>
    /\ pc = "thrown"
    /\ Throws(thrown)
    /\ Len(caught) = 1
    /\ \A c \in 1..Len(calls) :
         calls[c].item <= caught[1] /\ calls[c].outcome # Pending

\* C3 witness: the call of item 0 was rejected, execute threw, and item 1
\* never got a call.
C3_Witness ==
  /\ ~continueOnFail
  /\ pc = "thrown"
  /\ nItems = 2
  /\ caught = <<0>>
  /\ Len(calls) = 1
  /\ Throws(calls[1].outcome)

\* C4: at most one database-client call is in flight, it is the latest
\* one (every earlier call has settled), and the calls are made in
\* strictly increasing item order.
C4_Sequential ==
  /\ \A k \in 1..Len(calls) : calls[k].outcome = Pending => k = Len(calls)
  /\ \A k \in 1..(Len(calls) - 1) : calls[k].item < calls[k + 1].item

\* C4 witness: the call of item 1 is in flight after the call of item 0
\* settled.
C4_Witness ==
  /\ Len(calls) = 2
  /\ calls[1].item = 0
  /\ calls[1].outcome # Pending
  /\ calls[2].item = 1
  /\ calls[2].outcome = Pending

\* C5: for findMany, an item whose find call returned k documents has
\* exactly k output records paired to it.
C5_FindManyFanOut ==
  (operation = "findMany" /\ pc = "done") =>
    \A c \in 1..Len(calls) :
      calls[c].outcome.kind = "array" =>
        Cardinality(RecordsOf(calls[c].item)) = Len(calls[c].outcome.elems)

\* C6: for an operation other than findMany, when execute returns after
\* the setup succeeded the output has one record per input item, the k-th
\* paired to item k, each an envelope or (under continue-on-fail) an error
\* record.
C6_OneRecordPerItem ==
  (operation # "findMany" /\ pc = "done" /\ LoopEntered) =>
    /\ Len(returnData) = nItems
    /\ \A n \in 1..Len(returnData) :
         /\ Len(Links(returnData[n])) = 1
         /\ PairedTo(returnData[n]) = n - 1
         /\ \/ IsEnvelope(returnData[n].json)
            \/ continueOnFail /\ IsErrorRecord(returnData[n])

\* C6 witness: two items, one caught and one answered, both in the output.
C6_Witness ==
  /\ operation = "insertOne"
  /\ pc = "done"
  /\ nItems = 2
  /\ caught = <<1>>
  /\ Len(calls) = 2
  /\ Len(returnData) = 2

\* C7: n findOne items whose call returns null, continue-on-fail off:
\* execute returns n records, each with the body {} and paired to its item.
C7_FindOneEmptyBody ==
  ( /\ operation = "findOne"
    /\ ~continueOnFail
    /\ pc = "done"
    /\ Len(calls) = nItems
    /\ \A c \in 1..Len(calls) : calls[c].outcome = Null ) =>
    /\ Len(returnData) = nItems
    /\ \A n \in 1..Len(returnData) :
         returnData[n].json = EmptyObject /\ PairedTo(returnData[n]) = n - 1

C9_EnvelopeOperation ==
  \A n \in 1..Len(returnData) :
    LET json == returnData[n].json
    IN  IsEnvelope(json) =>
          /\ json.operation = operation
          /\ \A f \in DOMAIN json \ {"kind", "operation", "success"} :
               IsEnvelope(json[f]) => json[f].operation = operation

\* C9 witness: a delete envelope with the envelope of deleteDocuments
\* nested in it.
C9_Witness ==
  /\ operation = "delete"
  /\ Len(returnData) = 1
  /\ IsEnvelope(returnData[1].json)
  /\ IsEnvelope(returnData[1].json.data)

\* the SDK method the claim names for each operation
ClaimedMethod ==
  [insertOne |-> "insertOne", insertMany |-> "insertMany",
   findMany |-> "find", findOne |-> "findOne", updateMany |-> "updateMany",
   delete |-> "deleteMany", findAndUpdate |-> "findOneAndUpdate",
   findAndReplace |-> "findOneAndReplace",
   findAndDelete |-> "findOneAndDelete",
   estimatedDocumentCount |-> "estimatedDocumentCount"]

C11_PreLoopFailure ==
  (client # Undefined /\ ~LoopEntered /\ pc \in {"done", "thrown"}) =>
    IF continueOnFail
      THEN /\ pc = "done"
           /\ thrown = Undefined
           /\ Len(returnData) = 1
           /\ IsErrorRecord(returnData[1])
      ELSE /\ pc = "thrown"
           /\ Throws(thrown)
           /\ returnData = <<>>

\* C11 witness: an identifier failed validation under continue-on-fail and
\* execute returned the error record.
C11_Witness ==
  /\ continueOnFail
  /\ pc = "done"
  /\ client # Undefined
  /\ ~LoopEntered
  /\ Len(returnData) = 1
  /\ returnData[1].json.error = Str("Astra DB keyspace name cannot be empty")

\* C12: credentials and client are set in one step at the start, the
\* collection handle (after both identifier validations) in one step of the
\* setup; neither step is taken again, both come before the first call, and
\* every call is made with the client and handle unchanged.
C12_SetupOnce ==
  [][ /\ (validatedCredentials' # validatedCredentials \/ client' # client) =>
           /\ pc = "start"
           /\ validatedCredentials = Undefined
           /\ client = Undefined
           /\ calls' = <<>>
      /\ collectionObj' # collectionObj =>
           /\ pc = "setup"
           /\ collectionObj = Undefined
           /\ calls' = <<>>
      /\ pc' = "start" => pc = "start"
      /\ pc' = "setup" => pc \in {"start", "setup"}
      /\ calls' # calls =>
           /\ client # Undefined /\ client' = client
           /\ collectionObj # Undefined /\ collectionObj' = collectionObj ]_vars

\* C12 witness: two items had their calls on the one handle.
C12_Witness ==
  /\ nItems = 2
  /\ Len(calls) = 2
  /\ calls[2].outcome # Pending
  /\ LoopEntered
  /\ client # Undefined

\* Vocabulary of the properties about the helpers called on their own.
Returned(fn) == pc = "returned" /\ arg.fn = fn

\* the naming rule as the specification words it: a letter first, then
\* letters, digits and underscores only
WellFormed(cs) ==
  /\ Len(cs) > 0
  /\ \A k \in 1..Len(cs) :
       cs[k] \in (IF k = 1 THEN Letters ELSE Letters \cup Digits \cup {"_"})

ReservedWords == {<<"s", "y", "s", "t", "e", "m">>}

\* C13: the keyspace name given to client.db and the collection name given
\* to db.collection are, character for character, well-formed: a letter
\* followed by letters, digits and underscores, with no surrounding
\* whitespace.
C13_WellFormedNames ==
  LoopEntered =>
    /\ collectionObj.keyspace.kind = "str"
    /\ WellFormed(collectionObj.keyspace.chars)
    /\ collectionObj.collection.kind = "str"
    /\ WellFormed(collectionObj.collection.chars)

\* C14: validateKeyspaceCollectionName fails for every name that is not
\* well-formed (empty, starting with a digit, or containing a character that
\* is not a letter, digit or underscore) and passes for every well-formed
\* name that is not reserved.
C14_NameValidation ==
  (Returned("validateKeyspaceCollectionName") /\ arg.name.kind = "str") =>
    /\ ~WellFormed(arg.name.chars) => Throws(res)
    /\ (WellFormed(arg.name.chars) /\ arg.name.chars \notin ReservedWords) =>
         res = Undefined

\* C15: validateKeyspaceCollectionName fails for a reserved word such as
\* 'system', although it matches the naming pattern.
C15_ReservedWord ==
  (/\ Returned("validateKeyspaceCollectionName")
   /\ arg.name.kind = "str"
   /\ arg.name.chars \in ReservedWords) => Throws(res)

\* a credential field is usable: a string that is not blank after trimming
Usable(credentials, f) ==
  /\ f \in DOMAIN credentials
  /\ credentials[f].kind = "str"
  /\ \E k \in 1..Len(credentials[f].chars) : credentials[f].chars[k] # " "

\* C16: validateAstraCredentialsRaw returns exactly {endpoint, token}, both
\* trimmed, when both fields are usable, and otherwise fails naming the first
\* unusable field (endpoint before token); so a returned pair has both
\* fields non-empty.
C16_Credentials ==
  Returned("validateAstraCredentialsRaw") =>
    LET c == arg.credentials
    IN  IF ~Usable(c, "endpoint")
          THEN res = Throw("Astra DB endpoint is required")
        ELSE IF ~Usable(c, "token")
          THEN res = Throw("Astra DB token is required")
        ELSE /\ res = [kind |-> "object",
                       endpoint |-> Text(trim(c.endpoint.chars)),
                       token |-> Text(trim(c.token.chars))]
             /\ res.endpoint.chars # <<>>
             /\ res.token.chars # <<>>

\* the values validateQuery is to turn down
Rejectable(query) ==
  \/ query.kind \in {"null", "undefined"}
  \/ query.kind \notin {"object", "array"}
  \/ query.kind = "array"
  \/ "$where" \in DOMAIN query

\* C17: validateQuery answers isValid = false with at least one error for
\* null/undefined, a non-object, an array and an object with a $where key;
\* for any other object it answers isValid = true with no error, and for the
\* empty object as a filter it also gives a warning.
C17_QueryValidation ==
  Returned("validateQuery") =>
    IF Rejectable(arg.query)
      THEN ~res.isValid /\ res.errors # <<>>
      ELSE /\ res.isValid
           /\ res.errors = <<>>
           /\ (arg.query = EmptyObject /\ arg.fieldName = "filter") =>
                ("warnings" \in DOMAIN res /\ res.warnings # <<>>)

\* the limit option as a number is inside 1..1000
LimitInRange(v) ==
  /\ ~IsNaN(ToNumber(v))
  /\ ToNumber(v).n \in 1..1000

\* C18: parseAstraOptions fails for a limit that is not a number in 1..1000
\* (2000 and 0 among them) and for a negative skip; a limit in the range is
\* returned as given.
C18_LimitRange ==
  Returned("parseAstraOptions") =>
    LET o == arg.options
    IN  /\ ("limit" \in DOMAIN o /\ ~LimitInRange(o.limit)) => Throws(res)
        /\ ("skip" \in DOMAIN o /\ o.skip.kind = "num" /\ o.skip.n < 0) =>
             Throws(res)
        /\ (DOMAIN o = {"kind", "limit"} /\ LimitInRange(o.limit)) =>
             (~Throws(res) /\ res.limit = o.limit)

\* the sort mapping an options object asks for (an object, or JSON text)
SortMapping(o) ==
  IF o.sort.kind = "str" THEN JSONparse(o.sort.s) ELSE o.sort

\* the fields of a sort mapping whose direction is neither 1 nor -1
BadDirections(sort) ==
  {f \in DOMAIN sort \ {"kind"} : sort[f] \notin {Num(1), Num(-1)}}

\* C19: parseAstraOptions fails, naming the field, when a value of the sort
\* mapping is neither 1 nor -1, and returns a sort mapping of 1 and -1
\* values unchanged.
C19_SortDirections ==
  (/\ Returned("parseAstraOptions")
   /\ DOMAIN arg.options = {"kind", "sort"}
   /\ SortMapping(arg.options).kind = "object") =>
    LET sort == SortMapping(arg.options)
    IN  IF BadDirections(sort) # {}
          THEN /\ Throws(res)
               /\ \E f \in BadDirections(sort) :
                    res.message = "Sort direction for field \"" \o f
                                    \o "\" must be 1 (ascending) or -1 (descending)"
          ELSE ~Throws(res) /\ res.sort = sort

\* the fields formatAstraResponse copies from the result, per operation
CopiedFields ==
  [insertOne |-> {"insertedId", "acknowledged"},
   insertMany |-> {"insertedIds", "insertedCount", "acknowledged"},
   updateMany |-> {"matchedCount", "modifiedCount", "acknowledged"}]

\* C20: for insertOne, insertMany and updateMany the envelope of
\* formatAstraResponse is exactly operation, success = true and the fields
\* copied from the result for that operation, with no other field.
C20_EnvelopeFields ==
  (/\ Returned("formatAstraResponse")
   /\ arg.operation \in DOMAIN CopiedFields
   /\ arg.result.kind = "object") =>
    res = [f \in CopiedFields[arg.operation] |-> Get(arg.result, f)]
            @@ [kind |-> "object", operation |-> arg.operation, success |-> TRUE]

\* no string anywhere in `v` has an angle bracket
RECURSIVE NoAngleBrackets(_)
NoAngleBrackets(v) ==
  CASE v.kind = "str" ->
         \A k \in 1..Len(v.chars) : v.chars[k] \notin {"<", ">"}
    [] v.kind = "array" ->
         \A k \in 1..Len(v.elems) : NoAngleBrackets(v.elems[k])
    [] v.kind = "object" ->
         \A f \in DOMAIN v \ {"kind"} : NoAngleBrackets(v[f])
    [] OTHER -> TRUE

\* C21: sanitizeInput keeps the shape of its argument (a string gives a
\* string, an array an array, an object an object with the same keys, null
\* and undefined themselves) and its result has no '<' and no '>' in any
\* string, at any depth.
C21_SanitizeStrips ==
  Returned("sanitizeInput") =>
    /\ res.kind = arg.data.kind
    /\ arg.data.kind = "object" => DOMAIN res = DOMAIN arg.data
    /\ arg.data.kind = "array" => Len(res.elems) = Len(arg.data.elems)
    /\ NoAngleBrackets(res)

\* the operation-specific fields of an envelope, as values of the raw result
\* of the collection call
RawFields(op, raw) ==
  CASE op = "insertOne" ->
         [insertedId |-> Get(raw, "insertedId"),
          acknowledged |-> Get(raw, "acknowledged")]
    [] op = "insertMany" ->
         [insertedIds |-> Get(raw, "insertedIds"),
          insertedCount |-> Get(raw, "insertedCount"),
          acknowledged |-> Get(raw, "acknowledged")]
    [] op = "updateMany" ->
         [matchedCount |-> Get(raw, "matchedCount"),
          modifiedCount |-> Get(raw, "modifiedCount"),
          acknowledged |-> Get(raw, "acknowledged")]
    [] op = "delete" ->
         [deletedCount |-> Get(raw, "deletedCount"),
          acknowledged |-> Get(raw, "acknowledged")]
    [] op = "estimatedDocumentCount" -> [count |-> raw]
    [] OTHER -> [document |-> raw]

\* C22: for a non-findMany operation every emitted envelope is built once
\* from the raw result of its item's collection call: its data field is
\* that raw result, not another envelope, and its operation-specific fields
\* hold the raw result's values.
C22_EnvelopeFromRawResult ==
  operation \in Operations \ {"findMany"} =>
    \A n \in 1..Len(returnData) :
      ~IsErrorRecord(returnData[n]) =>
        \E k \in 1..Len(calls) :
          /\ calls[k].item = PairedTo(returnData[n])
          /\ ~IsEnvelope(returnData[n].json.data)
          /\ returnData[n].json.data = calls[k].outcome
          /\ \A f \in DOMAIN RawFields(operation, calls[k].outcome) :
               returnData[n].json[f] = RawFields(operation, calls[k].outcome)[f]

\* C23: when credential validation or client construction fails, execute
\* ends by propagating the error whatever the continue-on-fail setting: no
\* record is emitted, nothing is returned and no collection call is made.
C23_CredentialFailurePropagates ==
  (pc # "start" /\ client = Undefined) =>
    /\ pc = "thrown"
    /\ Throws(thrown)
    /\ returnData = <<>>
    /\ calls = <<>>
    /\ collectionObj = Undefined

\* C23 witness: under continue-on-fail the client constructor threw and the
\* error left execute.
C23_Witness ==
  /\ continueOnFail
  /\ pc = "thrown"
  /\ client = Undefined
  /\ validatedCredentials # Undefined
  /\ thrown = Throw("Failed to connect to Astra DB: boom")

\* the parameters that select the operation and the collection
SelectingParameters == {"operation", "keyspace", "collection"}

\* the parameters an operation takes from each item
ItemParameters(op) ==
  ParsedParams[op] \cup (IF op \in OptionOperations THEN {"options"} ELSE {})

\* C24: operation, keyspace and collection are asked of the host at index 0
\* only, and all three before the loop; every call of the execution is of
\* the one operation so selected; the other parameters are asked at the
\* index of the item being processed, and an item that got its call had all
\* its own parameters read at its own index.
C24_SelectedAtIndexZero ==
  /\ \A r \in reads :
       IF r[1] \in SelectingParameters
         THEN r[2] = 0
         ELSE r[2] \in 0..(nItems - 1) /\ r[2] <= i
  /\ LoopEntered => \A f \in SelectingParameters : <<f, 0>> \in reads
  /\ \A c \in 1..Len(calls) :
       /\ operation \in Operations
       /\ calls[c].method = ClaimedMethod[operation]
       /\ \A f \in ItemParameters(operation) : <<f, calls[c].item>> \in reads

\* C24 witness: a two-item execution made both calls, reading the filter at
\* index 0 and at index 1 and the operation at index 0 alone.
C24_Witness ==
  /\ pc = "done"
  /\ Len(calls) = 2
  /\ {<<"filter", 0>>, <<"filter", 1>>, <<"operation", 0>>} \subseteq reads
  /\ <<"operation", 1>> \notin reads

\* C25: the record of the top-level catch (paired through the list
\* [{item: 0}]) appears only for a failure before the item loop: it is then
\* the only record and no collection call was made; and there are never more
\* error records than failures.
C25_SingleErrorRecord ==
  /\ \A n \in 1..Len(returnData) :
       returnData[n].pairedItem.kind = "array" =>
         /\ IsErrorRecord(returnData[n])
         /\ Len(returnData) = 1
         /\ calls = <<>>
         /\ ~LoopEntered
  /\ Cardinality({n \in 1..Len(returnData) : IsErrorRecord(returnData[n])})
       <= IF LoopEntered THEN Len(caught) ELSE 1

\* C25 witness: a parameter could not be read before the loop under
\* continue-on-fail; the output is the top-level error record alone.
C25_Witness ==
  /\ continueOnFail
  /\ pc = "done"
  /\ calls = <<>>
  /\ returnData = <<errorRecord(HostError, topLevelPairedItem)>>

====
